---- MODULE Spec2Model ----
(***************************************************************************)
(* Model of the geometric calibration engine of RadarCamCalib:             *)
(*   src/calibration.py   CameraParams, RadarParams,                       *)
(*                        VanishingPointCalibrator, CoordinateTransformer  *)
(*   src/calib_manager.py CalibrationManager                               *)
(*                                                                         *)
(* Numbers.  The program computes in floating point; the model computes    *)
(* exactly.  A real number is a reduced fraction <<n, d>> with d > 0.       *)
(* An angle is never stored as a number of radians:                        *)
(*   - RadarParams.yaw is the pair [c, s] of its cosine and sine, taken    *)
(*     from angles whose cosine and sine are rational;                     *)
(*   - CameraParams.pitch is [tan |-> t, turn |-> k], the angle            *)
(*     arctan(t) + k*pi (k = 0 is the range of arctan), so that            *)
(*     arctan(tan(p)) is p only for k = 0.                                 *)
(* With pitch p = [t, k], cos p = sg/S and sin p = sg*t/S where            *)
(* S = sqrt(1 + t*t) and sg = +1 for k = 0, -1 for k = 1.  A lateral       *)
(* image or ground coordinate is a "surd" <<r, s>> = r + s*S.              *)
(* An optional value (Python's None or a value) is <<>> or <<v>>.          *)
(***************************************************************************)
EXTENDS Integers, Sequences, FiniteSets, TLC

VARIABLES
    camera,           \* the CameraParams object owned by the manager
    radar,            \* the RadarParams object owned by the manager
    transformer,      \* CalibrationManager.transformer (a CoordinateTransformer)
    v_calibrator,     \* CalibrationManager.v_calibrator (a VanishingPointCalibrator)
    vanishing_lines,  \* CalibrationManager.vanishing_lines
    held,             \* a transformer a caller obtained earlier, with what it returned then
    ops,              \* the OperationsController of the main window
    ret               \* the last call: its name, arguments and return value

vars == <<camera, radar, transformer, v_calibrator, vanishing_lines, held, ops, ret>>

-----------------------------------------------------------------------------
(* Optional values *)

None == <<>>

Some(v) == <<v>>

Get(o) == o[1]

-----------------------------------------------------------------------------
(* Exact rational arithmetic *)

Abs(n) == IF n < 0 THEN -n ELSE n

RECURSIVE GCD(_, _)
GCD(a, b) == IF b = 0 THEN a ELSE GCD(b, a % b)

Rat(n, d) ==
    LET g == GCD(Abs(n), Abs(d))
        sgn == IF d < 0 THEN -1 ELSE 1
    IN  <<sgn * (n \div g), sgn * (d \div g)>>

R(n) == <<n, 1>>

Zero == <<0, 1>>

One == <<1, 1>>

RAdd(p, q) ==
    LET g == GCD(p[2], q[2])
    IN  Rat(p[1] * (q[2] \div g) + q[1] * (p[2] \div g), (p[2] \div g) * q[2])

RNeg(p) == <<-p[1], p[2]>>

RSub(p, q) == RAdd(p, RNeg(q))

RMul(p, q) == Rat(p[1] * q[1], p[2] * q[2])

RDiv(p, q) == Rat(p[1] * q[2], p[2] * q[1])

\* The sign of p - q (-1, 0 or 1), by comparing integer parts and then the
\* reciprocals of the fractional parts: no product is formed.
RECURSIVE RCmp(_, _)
RCmp(p, q) ==
    LET fp == p[1] \div p[2]
        fq == q[1] \div q[2]
        rp == p[1] % p[2]
        rq == q[1] % q[2]
    IN  IF fp # fq THEN (IF fp < fq THEN -1 ELSE 1)
        ELSE IF rp = 0 /\ rq = 0 THEN 0
        ELSE IF rp = 0 THEN -1
        ELSE IF rq = 0 THEN 1
        ELSE RCmp(<<q[2], rq>>, <<p[2], rp>>)

RLt(p, q) == RCmp(p, q) < 0

RLe(p, q) == RCmp(p, q) <= 0

RSq(p) == RMul(p, p)

-----------------------------------------------------------------------------
(* VanishingPointCalibrator (src/calibration.py 53-157).  A line is the     *)
(* tuple <<x1, y1, x2, y2>> of its integer pixel endpoints.                 *)

\* ax + by + c = 0 through the two endpoints; n2 is the square of the norm
\* sqrt(a*a + b*b) the code divides by.
HomoLine(l) ==
    LET a == l[2] - l[4]
        b == l[3] - l[1]
        c == l[1] * l[4] - l[3] * l[2]
    IN  [a |-> a, b |-> b, c |-> c, n2 |-> a * a + b * b]

\* norm > 1e-6.  The endpoints are integers, so the norm is 0 or at least 1.
Usable(h) == h.n2 > 0

\* homo_lines that stops at the first line it cannot normalize instead of
\* passing over it.
RECURSIVE homo_lines_until_unusable(_)
homo_lines_until_unusable(ls) ==
    IF ls = <<>> THEN <<>>
    ELSE LET h == HomoLine(Head(ls))
         IN  IF Usable(h) THEN <<h>> \o homo_lines_until_unusable(Tail(ls)) ELSE <<>>

RECURSIVE homo_lines(_)
homo_lines(ls) ==
    IF ls = <<>> THEN <<>>
    ELSE LET h == HomoLine(Head(ls))
         IN  (IF Usable(h) THEN <<h>> ELSE <<>>) \o homo_lines(Tail(ls))

\* Intersect2 with the two coordinates of the cross product taken in the
\* other order.
Intersect2Swapped(l1, l2) ==
    LET w == l1.a * l2.b - l2.a * l1.b
    IN  IF w = 0 THEN None
        ELSE Some(<<Rat(l1.c * l2.a - l2.c * l1.a, w),
                    Rat(l1.b * l2.c - l2.b * l1.c, w)>>)

\* Two usable lines: the cross product of the two normalised lines, divided by
\* its third component.  The third component is (a1*b2 - a2*b1)/(norm1*norm2);
\* with integer endpoints it is 0 or at least 1/(norm1*norm2) in size, far above
\* 1e-9, so abs(vp_homo[2]) < 1e-9 is a1*b2 - a2*b1 = 0.  The norms cancel in
\* the two quotients.
Intersect2(l1, l2) ==
    LET w == l1.a * l2.b - l2.a * l1.b
    IN  IF w = 0 THEN None
        ELSE Some(<<Rat(l1.b * l2.c - l2.b * l1.c, w),
                    Rat(l1.c * l2.a - l2.c * l1.a, w)>>)

RECURSIVE RSum(_)
RSum(qs) == IF qs = <<>> THEN Zero ELSE RAdd(Head(qs), RSum(Tail(qs)))

\* More than two usable lines: numpy.linalg.lstsq on the rows [a/norm, b/norm]
\* and the right-hand sides -c/norm.  It returns the least-squares solution, and
\* when the rows have rank 1 (all lines parallel) the solution of minimum norm;
\* it raises nothing on finite input, so this branch always yields a point.
\* The normal equations are M z = r with
\*   M = sum [a*a, a*b; a*b, b*b]/n2,   r = sum -c*[a, b]/n2.
\* If det M # 0 the solution is M^-1 r.  Otherwise every row is +-d for one
\* unit vector d, M = m*d*d^T with m the number of rows (= trace M), r is a
\* multiple of d, and the minimum-norm solution is r/m.
LeastSquares(hs) ==
    LET I == 1..Len(hs)
        m11 == RSum([i \in I |-> Rat(hs[i].a * hs[i].a, hs[i].n2)])
        m12 == RSum([i \in I |-> Rat(hs[i].a * hs[i].b, hs[i].n2)])
        m22 == RSum([i \in I |-> Rat(hs[i].b * hs[i].b, hs[i].n2)])
        r1  == RSum([i \in I |-> Rat(-(hs[i].c * hs[i].a), hs[i].n2)])
        r2  == RSum([i \in I |-> Rat(-(hs[i].c * hs[i].b), hs[i].n2)])
        det == RSub(RMul(m11, m22), RMul(m12, m12))
    IN  IF det # Zero
        THEN Some(<<RDiv(RSub(RMul(m22, r1), RMul(m12, r2)), det),
                    RDiv(RSub(RMul(m11, r2), RMul(m12, r1)), det)>>)
        ELSE Some(<<RDiv(r1, R(Len(hs))), RDiv(r2, R(Len(hs)))>>)

\* compute_vanishing_point past the cache test (lines 101-135): the point, or
\* None.
ComputeVP(ls) ==
    LET hs == homo_lines(ls)
    IN  IF Len(hs) < 2 THEN None
        ELSE IF Len(hs) = 2 THEN Intersect2(hs[1], hs[2])
        ELSE LeastSquares(hs)

\* A calibrator object: its line list and its cached vanishing point.
NewCalibrator == [lines |-> <<>>, vanishing_point |-> None]

add_line_stale(cal, l) == [cal EXCEPT !.lines = Append(cal.lines, l)]

add_line(cal, l) ==
    [lines |-> Append(cal.lines, l), vanishing_point |-> None]

clear(cal) == [lines |-> <<>>, vanishing_point |-> None]

\* remove_last_line that pops the oldest line, self.lines.pop(0).
remove_first_line(cal) ==
    IF cal.lines # <<>>
    THEN [cal |-> [lines |-> Tail(cal.lines), vanishing_point |-> None],
          val |-> TRUE]
    ELSE [cal |-> cal, val |-> FALSE]

\* remove_last_line: the calibrator it leaves and the flag it returns.
remove_last_line(cal) ==
    IF cal.lines # <<>>
    THEN [cal |-> [lines |-> SubSeq(cal.lines, 1, Len(cal.lines) - 1),
                   vanishing_point |-> None],
          val |-> TRUE]
    ELSE [cal |-> cal, val |-> FALSE]

\* compute_vanishing_point that asks for more than two lines.
compute_vanishing_point_needs_three(cal) ==
    IF Len(cal.lines) <= 2 THEN [cal |-> cal, val |-> None]
    ELSE IF cal.vanishing_point # None
    THEN [cal |-> cal, val |-> cal.vanishing_point]
    ELSE LET vp == ComputeVP(cal.lines)
         IN  IF vp = None THEN [cal |-> cal, val |-> None]
             ELSE [cal |-> [cal EXCEPT !.vanishing_point = vp], val |-> vp]

\* compute_vanishing_point: the calibrator it leaves (the cache may be filled)
\* and the point, or None, it returns.
compute_vanishing_point(cal) ==
    IF Len(cal.lines) < 2 THEN [cal |-> cal, val |-> None]
    ELSE IF cal.vanishing_point # None
    THEN [cal |-> cal, val |-> cal.vanishing_point]
    ELSE LET vp == ComputeVP(cal.lines)
         IN  IF vp = None THEN [cal |-> cal, val |-> None]
             ELSE [cal |-> [cal EXCEPT !.vanishing_point = vp], val |-> vp]

\* numpy.arctan: the angle in (-pi/2, pi/2) with the given tangent.
Arctan(q) == [tan |-> q, turn |-> 0]

\* compute_pitch(cy, fy): the calibrator it leaves and the pitch, or None.
compute_pitch(cal, cy, fy) ==
    LET r == compute_vanishing_point(cal)
    IN  IF r.val = None THEN [cal |-> r.cal, val |-> None]
        ELSE [cal |-> r.cal,
              val |-> Some(Arctan(RDiv(RSub(cy, Get(r.val)[2]), fy)))]

\* What a calibrator constructed now and given the lines ls returns.
FreshVP(ls) == compute_vanishing_point([lines |-> ls, vanishing_point |-> None]).val

-----------------------------------------------------------------------------
(* Parameter objects (src/calibration.py 24-50) *)

DefaultCamera ==
    [height |-> <<3, 2>>, pitch |-> [tan |-> Zero, turn |-> 0],
     fx |-> R(1000), fy |-> R(1000), cx |-> R(640), cy |-> R(480)]

\* yaw = 0.0 is cos 1, sin 0.
DefaultRadar ==
    [yaw |-> [c |-> One, s |-> Zero], elev |-> Zero,
     x_offset |-> <<7, 2>>, y_offset |-> Zero]

-----------------------------------------------------------------------------
(* CoordinateTransformer (src/calibration.py 160-512).  A transformer holds *)
(* references to a CameraParams and a RadarParams object, not copies: "mgr" *)
(* is the object the manager owns (the variable camera, or radar), "own" a  *)
(* default object the constructor made for itself.                          *)

\* __init__(camera, radar): self.camera = camera or CameraParams(), the same
\* for radar.  An argument is given as <<ref>>, or <<>> for Python's None; a
\* dataclass instance is truthy, so a given object is kept.
NewTransformerDetached(cam, rad) == [camera |-> "own", radar |-> "own"]

NewTransformer(cam, rad) ==
    [camera |-> IF cam # None THEN Get(cam) ELSE "own",
     radar  |-> IF rad # None THEN Get(rad) ELSE "own"]

\* The parameter values a transformer computes with now.
CameraOf(T) == IF T.camera = "mgr" THEN camera ELSE DefaultCamera

RadarOf(T) == IF T.radar = "mgr" THEN radar ELSE DefaultRadar

\* radar_to_bev in the convention with BEV X forward and BEV Y to the left.
radar_to_bev_forward_x(rp, x_radar, y_radar) ==
    <<RAdd(RSub(RMul(x_radar, rp.yaw.c), RMul(y_radar, rp.yaw.s)), rp.x_offset),
      RAdd(RAdd(RMul(x_radar, rp.yaw.s), RMul(y_radar, rp.yaw.c)), rp.y_offset)>>

\* radar_to_bev with self.radar = rp: <<x_bev, y_bev>>.
radar_to_bev(rp, x_radar, y_radar) ==
    LET cos_yaw == rp.yaw.c
        sin_yaw == rp.yaw.s
        x_rot_fwd  == RSub(RMul(x_radar, cos_yaw), RMul(y_radar, sin_yaw))
        y_rot_left == RAdd(RMul(x_radar, sin_yaw), RMul(y_radar, cos_yaw))
        y_bev == RAdd(x_rot_fwd, rp.y_offset)
        x_bev == RAdd(RNeg(y_rot_left), rp.x_offset)
    IN  <<x_bev, y_bev>>

bev_to_radar_same_sign(rp, x_bev, y_bev) ==
    LET x_rot_fwd  == RSub(y_bev, rp.y_offset)
        y_rot_left == RSub(rp.x_offset, x_bev)
    IN  <<RAdd(RMul(x_rot_fwd, rp.yaw.c), RMul(y_rot_left, rp.yaw.s)),
          RAdd(RMul(x_rot_fwd, rp.yaw.s), RMul(y_rot_left, rp.yaw.c))>>

\* bev_to_radar with self.radar = rp: <<x_radar, y_radar>>.
bev_to_radar(rp, x_bev, y_bev) ==
    LET x_rot_fwd  == RSub(y_bev, rp.y_offset)
        y_rot_left == RSub(rp.x_offset, x_bev)
        cos_yaw == rp.yaw.c
        sin_yaw == rp.yaw.s
        x_radar == RAdd(RMul(x_rot_fwd, cos_yaw), RMul(y_rot_left, sin_yaw))
        y_radar == RAdd(RMul(RNeg(x_rot_fwd), sin_yaw), RMul(y_rot_left, cos_yaw))
    IN  <<x_radar, y_radar>>

\* The sign of cos(pitch), and 1 + tan(pitch)^2 = S*S.
Sg(pitch) == IF pitch.turn = 0 THEN One ELSE R(-1)

Sec2(pitch) == RAdd(One, RSq(pitch.tan))

\* Newton's iteration for the integer part of sqrt(n), from x >= sqrt(n) > 0.
RECURSIVE Newton(_, _)
Newton(n, x) ==
    LET y == (x + n \div x) \div 2
    IN  IF y >= x THEN x ELSE Newton(n, y)

\* The square root of n >= 0 when n is a perfect square, else -1.
IRoot(n) ==
    IF n = 0 THEN 0
    ELSE LET x == Newton(n, n)
         IN  IF x * x = n THEN x ELSE -1

\* A surd r + s*S in normal form: when S is rational it is folded into r.
Surd(pitch, r, s) ==
    LET q  == Sec2(pitch)
        rn == IRoot(q[1])
        rd == IRoot(q[2])
    IN  IF s # Zero /\ rn >= 0 /\ rd >= 0
        THEN <<RAdd(r, RMul(s, Rat(rn, rd))), Zero>>
        ELSE <<r, s>>

\* The forward and lateral position of the camera in the vehicle frame.
cam_y_pos == <<7, 2>>

cam_x_pos == Zero

\* z_cam <= 0.1 at the depth z_cam = zn/S (S > 0).
DepthThreshold == <<1, 10>>

\* The test z_cam <= 0 in place of z_cam <= 0.1.
TooNearAtZero(pitch, zn) == RLe(zn, Zero)

TooNear(pitch, zn) ==
    \/ RLe(zn, Zero)
    \/ RLe(RSq(zn), RMul(RSq(DepthThreshold), Sec2(pitch)))

\* bev_to_image with self.camera = cp: <<u, v>> or None.  u is a surd.
\* With cos p = sg/S, sin p = sg*t/S:  y_cam = yn/S, z_cam = zn/S.
bev_to_image(cp, x_bev, y_bev) ==
    LET cam_z_pos == cp.height
        dx_v == RSub(x_bev, cam_x_pos)
        dy_v == RSub(y_bev, cam_y_pos)
        dz_v == RSub(Zero, cam_z_pos)
        cx0 == dx_v
        cy0 == RNeg(dz_v)
        cz0 == dy_v
        t  == cp.pitch.tan
        sg == Sg(cp.pitch)
        yn == RMul(sg, RSub(cy0, RMul(cz0, t)))
        zn == RMul(sg, RAdd(RMul(cy0, t), cz0))
    IN  IF TooNear(cp.pitch, zn) THEN None
        ELSE Some(<<Surd(cp.pitch, cp.cx, RDiv(RMul(cp.fx, cx0), zn)),
                    RAdd(RMul(cp.fy, RDiv(yn, zn)), cp.cy)>>)

\* The angle -a of an angle a.
NegAngle(a) == [tan |-> RNeg(a.tan), turn |-> a.turn]

\* image_to_bev from line 271 on, with the angle the ray is rotated by (the
\* code's cos_p, sin_p are its cosine and sine) given as rot:
\* <<x_bev, y_bev>> (x_bev a surd) or None, for a pixel <<u, v>> with u a
\* surd.  The code divides the camera ray by its norm, a positive number that
\* cancels in the sign test and in t * ray_veh; the model keeps the ray
\* (x_norm, y_norm, 1) unscaled.  With cos_p = sg/S and sin_p = sg*ta/S:
\*   ry = sg*(y_norm - ta)/S,  rz = sg*(y_norm*ta + 1)/S,
\*   ray_veh = (rx, rz, -ry),  t = -cam_z_pos/ray_veh[2] = cam_z_pos*S/(sg*(y_norm - ta))
\* so ray_veh[2] >= 0 is sg*(y_norm - ta) <= 0, and then t < 0 is cam_z_pos < 0.
RayToGround(cp, rot, u, v) ==
    LET xr == RDiv(RSub(u[1], cp.cx), cp.fx)
        xs == RDiv(u[2], cp.fx)
        y_norm == RDiv(RSub(v, cp.cy), cp.fy)
        ta == rot.tan
        sg == Sg(rot)
        w  == RMul(sg, RSub(y_norm, ta))
        cam_z_pos == cp.height
    IN  IF RLe(w, Zero) THEN None
        ELSE IF RLt(cam_z_pos, Zero) THEN None
        ELSE Some(<<Surd(rot,
                         RAdd(cam_x_pos, RDiv(RMul(cam_z_pos, RMul(xs, Sec2(rot))), w)),
                         RDiv(RMul(cam_z_pos, xr), w)),
                    RAdd(cam_y_pos,
                         RDiv(RMul(cam_z_pos, RMul(sg, RAdd(RMul(y_norm, ta), One))), w))>>)

image_to_bev_unrotated(cp, u, v) == RayToGround(cp, cp.pitch, u, v)

\* image_to_bev that also refuses the rays less than 1/100 below the horizon.
image_to_bev_with_margin(cp, u, v) ==
    LET y_norm == RDiv(RSub(v, cp.cy), cp.fy)
    IN  IF RLe(RMul(Sg(cp.pitch), RAdd(y_norm, cp.pitch.tan)), <<1, 100>>) THEN None
        ELSE RayToGround(cp, NegAngle(cp.pitch), u, v)

\* image_to_bev with self.camera = cp: the ray is rotated by -pitch.
image_to_bev(cp, u, v) == RayToGround(cp, NegAngle(cp.pitch), u, v)

\* The fixed error a correspondence adds when its projection is undefined.
Penalty == 100000

\* The number of candidates of the grid search.
GridPoints == 101

\* vp_y = cy - fy * tan(pitch)
VpYOf(cp) == RSub(cp.cy, RMul(cp.fy, cp.pitch.tan))

\* np.linspace(current_vp_y - search_range, current_vp_y + search_range, 101)[k]
SearchVal(current_vp_y, search_range, k) ==
    RAdd(RSub(current_vp_y, search_range),
         RMul(R(k), RDiv(RMul(R(2), search_range), R(GridPoints - 1))))

\* pitch = arctan((cy - vp_y) / fy)
PitchOfVpY(cp, vp_y) == Arctan(RDiv(RSub(cp.cy, vp_y), cp.fy))

\* (u_proj - u_meas)**2 + (v_proj - v_meas)**2 for the projection res = <<u, v>>.
\* u_proj is the surd r + s*S and (r - u_meas + s*S)^2 has the irrational part
\* 2*(r - u_meas)*s*S; every correspondence of the model is measured on the
\* image column u_meas = cx = r (or has s = 0), where that part is 0.
SquaredDistance(cp, res, p) ==
    RAdd(RAdd(RSq(RSub(res[1][1], p.pixel_u)),
              RMul(RSq(res[1][2]), Sec2(cp.pitch))),
         RSq(RSub(res[2], p.pixel_v)))

\* One turn of the inner loop: what the correspondence p adds to error and to
\* valid_count under the camera parameters cp.
PairErrorSkipped(cp, rp, p) ==
    LET bev == radar_to_bev(rp, p.radar_x, p.radar_y)
        res == bev_to_image(cp, bev[1], bev[2])
    IN  IF res # None
        THEN [error |-> SquaredDistance(cp, Get(res), p), valid |-> 1]
        ELSE [error |-> Zero, valid |-> 0]

PairError(cp, rp, p) ==
    LET bev == radar_to_bev(rp, p.radar_x, p.radar_y)
        res == bev_to_image(cp, bev[1], bev[2])
    IN  IF res # None
        THEN [error |-> SquaredDistance(cp, Get(res), p), valid |-> 1]
        ELSE [error |-> R(Penalty), valid |-> 0]

\* The inner loop leaving at the first correspondence without a projection.
RECURSIVE CandidateErrorBreaking(_, _, _)
CandidateErrorBreaking(cp, rp, pairs) ==
    IF pairs = <<>> THEN [error |-> Zero, valid |-> 0, calls |-> 0]
    ELSE LET e == PairError(cp, rp, Head(pairs))
             r == CandidateErrorBreaking(cp, rp, Tail(pairs))
         IN  IF e.valid = 0 THEN [error |-> e.error, valid |-> 0, calls |-> 1]
             ELSE [error |-> RAdd(e.error, r.error), valid |-> e.valid + r.valid,
                   calls |-> 1 + r.calls]

\* The inner loop: error and valid_count of one candidate; calls counts the
\* bev_to_image calls the loop makes.
RECURSIVE CandidateError(_, _, _)
CandidateError(cp, rp, pairs) ==
    IF pairs = <<>> THEN [error |-> Zero, valid |-> 0, calls |-> 0]
    ELSE LET e == PairError(cp, rp, Head(pairs))
             r == CandidateError(cp, rp, Tail(pairs))
         IN  [error |-> RAdd(e.error, r.error), valid |-> e.valid + r.valid,
              calls |-> 1 + r.calls]

\* Candidate without the test valid_count > 0: a candidate under which
\* nothing projects is accepted with its sum of penalties.
CandidateWithoutValidTest(cp, rp, pairs, search_range, k) ==
    LET vp_y == SearchVal(VpYOf(cp), search_range, k)
        cand == [cp EXCEPT !.pitch = PitchOfVpY(cp, vp_y)]
    IN  CHOOSE r \in {[best_vp_y |-> vp_y, min_error |-> Some(e.error),
                       candidates |-> 1, calls |-> e.calls] :
                      e \in {CandidateError(cand, rp, pairs)}} : TRUE

\* One turn of the outer loop: candidate k with its error, accepted only when
\* valid_count > 0.  min_error is None for float('inf'); candidates and calls
\* count the turns of the outer loop and the bev_to_image calls made in them.
Candidate(cp, rp, pairs, search_range, k) ==
    LET vp_y == SearchVal(VpYOf(cp), search_range, k)
        cand == [cp EXCEPT !.pitch = PitchOfVpY(cp, vp_y)]
    IN  CHOOSE r \in {IF e.valid > 0
                      THEN [best_vp_y |-> vp_y, min_error |-> Some(e.error),
                            candidates |-> 1, calls |-> e.calls]
                      ELSE [best_vp_y |-> VpYOf(cp), min_error |-> None,
                            candidates |-> 1, calls |-> e.calls] :
                      e \in {CandidateError(cand, rp, pairs)}} : TRUE

\* `if error < min_error` between the result a of earlier candidates and the
\* result b of later ones: the later one replaces the earlier only when it is
\* strictly smaller.
KeepBest(a, b) ==
    IF b.min_error = None THEN a
    ELSE IF a.min_error = None THEN b
    ELSE IF RLt(Get(b.min_error), Get(a.min_error)) THEN b
    ELSE a

\* The outer loop over candidates lo..hi in grid order, evaluated by halves
\* (the running minimum of a range is KeepBest of its two halves).
RECURSIVE GridSearch(_, _, _, _, _, _)
GridSearch(cp, rp, pairs, search_range, lo, hi) ==
    IF lo = hi THEN Candidate(cp, rp, pairs, search_range, lo)
    ELSE LET mid == (lo + hi) \div 2
         IN  CHOOSE r \in {[KeepBest(h[1], h[2]) EXCEPT
                              !.candidates = h[1].candidates + h[2].candidates,
                              !.calls = h[1].calls + h[2].calls] :
                   h \in {<<GridSearch(cp, rp, pairs, search_range, lo, mid),
                            GridSearch(cp, rp, pairs, search_range, mid + 1, hi)>>}} : TRUE

\* optimize_pitch without its `if not pairs` return.
optimize_pitch_unguarded(cp, rp, pairs, search_range) ==
    CHOOSE r \in {[camera |-> [cp EXCEPT !.pitch = PitchOfVpY(cp, b.best_vp_y)],
                   val |-> PitchOfVpY(cp, b.best_vp_y),
                   candidates |-> b.candidates, calls |-> b.calls] :
                   b \in {GridSearch(cp, rp, pairs, search_range,
                                     0, GridPoints - 1)}} : TRUE

\* optimize_pitch(pairs, search_range) with self.camera = cp, self.radar = rp:
\* the camera object it leaves, the pitch it returns, and how many candidates
\* it evaluated with how many bev_to_image calls.
optimize_pitch(cp, rp, pairs, search_range) ==
    IF pairs = <<>> THEN [camera |-> cp, val |-> cp.pitch, candidates |-> 0, calls |-> 0]
    ELSE CHOOSE r \in {[camera |-> [cp EXCEPT !.pitch = PitchOfVpY(cp, b.best_vp_y)],
                        val |-> PitchOfVpY(cp, b.best_vp_y),
                        candidates |-> b.candidates, calls |-> b.calls] :
                        b \in {GridSearch(cp, rp, pairs, search_range,
                                          0, GridPoints - 1)}} : TRUE

get_radar_bev_homography_transposed(rp) ==
    <<<<RNeg(rp.yaw.s), rp.yaw.c, rp.x_offset>>,
      <<RNeg(rp.yaw.c), RNeg(rp.yaw.s), rp.y_offset>>,
      <<Zero, Zero, One>>>>

\* get_radar_bev_homography with self.radar = rp: the rows of H.
get_radar_bev_homography(rp) ==
    LET cos_y == rp.yaw.c
        sin_y == rp.yaw.s
        off_x == rp.x_offset
        off_y == rp.y_offset
    IN  <<<<RNeg(sin_y), RNeg(cos_y), off_x>>,
          <<cos_y, RNeg(sin_y), off_y>>,
          <<Zero, Zero, One>>>>

\* H * [x, y, 1]^T
Apply(H, x, y) ==
    [i \in 1..3 |-> RAdd(RAdd(RMul(H[i][1], x), RMul(H[i][2], y)), H[i][3])]

\* The four ground points get_camera_bev_homography projects into the image.
bev_pts == <<<<Zero, R(20)>>, <<R(10), R(50)>>, <<R(-10), R(50)>>, <<Zero, R(100)>>>>

\* The points pts all have the same coordinate k.
NoSpread(pts, k) == \A i, j \in DOMAIN pts : pts[i][k] = pts[j][k]

\* cv2.findHomography(src, dst) with the default method, for as many
\* destination as source points: a library routine without state, whose
\* answer is determined by the correspondences it is given.  Its linear
\* solver refuses point sets without spread along an image axis (the sum of
\* the distances to the centroid in x or in y is 0) and answers a matrix for
\* every other set.  The model writes the matrix as the fit of the
\* correspondences and does not compute its nine numbers.
findHomography(src, dst) ==
    IF \E k \in 1..2 : NoSpread(src, k) \/ NoSpread(dst, k) THEN None
    ELSE Some([fitted_from |-> src, fitted_to |-> dst])

\* The indices of the sample points that project under cp, in order: the
\* points the loop appends to img_pts_list and valid_bev.
Projecting(cp) ==
    SelectSeq(<<1, 2, 3, 4>>,
              LAMBDA i : bev_to_image(cp, bev_pts[i][1], bev_pts[i][2]) # None)

\* get_camera_bev_homography that fits from three projected points on.
get_camera_bev_homography_from_three(cp) ==
    LET kept == Projecting(cp)
        img_pts_list == [n \in 1..Len(kept) |->
                            Get(bev_to_image(cp, bev_pts[kept[n]][1], bev_pts[kept[n]][2]))]
        valid_bev == [n \in 1..Len(kept) |-> bev_pts[kept[n]]]
    IN  IF Len(img_pts_list) < 3 THEN None
        ELSE findHomography(img_pts_list, valid_bev)

\* get_camera_bev_homography with self.camera = cp.
get_camera_bev_homography(cp) ==
    LET kept == Projecting(cp)
        img_pts_list == [n \in 1..Len(kept) |->
                            Get(bev_to_image(cp, bev_pts[kept[n]][1], bev_pts[kept[n]][2]))]
        valid_bev == [n \in 1..Len(kept) |-> bev_pts[kept[n]]]
    IN  IF Len(img_pts_list) < 4 THEN None
        ELSE findHomography(img_pts_list, valid_bev)

-----------------------------------------------------------------------------
(* Bounds and input sets *)

\* The longest line list the calibrator model is given.
MaxLines == 3

\* The longest CalibrationManager.vanishing_lines the manager model builds.
MaxVanishingLines == 2

\* Lines the calibrator is given directly: two crossing at (5, 5), three
\* parallel to each other, one of zero length.
LineInputs ==
    {<<0, 0, 10, 10>>, <<0, 10, 10, 0>>,
     <<0, 0, 1, 0>>, <<0, 1, 1, 1>>, <<0, 2, 1, 2>>,
     <<1, 1, 1, 1>>}

\* Lines handed to the manager one at a time.
ManagerLines == {<<0, 0, 10, 10>>, <<0, 10, 10, 0>>}

\* The elements of a lane list.  kind "Lane" is an object with start and end
\* attributes (operations.Lane), "pair" the tuple ((x1,y1),(x2,y2)), "flat" the
\* tuple (x1,y1,x2,y2), the form in which the calibrator and
\* CalibrationManager.vanishing_lines keep a line.
LaneA == [kind |-> "Lane", start |-> <<200, 400>>, end |-> <<300, 200>>]

LaneB == [kind |-> "pair", start |-> <<800, 400>>, end |-> <<700, 200>>]

LaneFlat == [kind |-> "flat", start |-> <<0, 10>>, end |-> <<10, 0>>]

\* The lists passed to compute_pitch_from_lanes: empty, one element, the two
\* lanes in both orders, one lane twice, and lists in which a flat element
\* stands before, between and after lanes.
LaneLists ==
    {<<>>, <<LaneA>>, <<LaneFlat>>,
     <<LaneA, LaneB>>, <<LaneB, LaneA>>, <<LaneA, LaneA>>,
     <<LaneFlat, LaneA>>, <<LaneA, LaneFlat, LaneB>>, <<LaneB, LaneA, LaneFlat>>}

\* Keyword arguments of update_camera_params: the call the UI and the test
\* make, a call naming one field and a key that is no field, a call naming
\* pitch.
CameraKwargs ==
    {[height |-> <<3, 2>>, fx |-> R(1000), fy |-> R(1000), cx |-> R(640), cy |-> R(480)],
     [height |-> R(2), frame |-> R(7)],
     [pitch |-> [tan |-> <<3, 4>>, turn |-> 0]]}

\* Keyword arguments of update_radar_params: the test's second call, and a
\* quarter turn to the left (cos 0, sin 1).
RadarKwargs ==
    {[yaw |-> [c |-> One, s |-> Zero], x_offset |-> R(4), y_offset |-> Zero],
     [yaw |-> [c |-> Zero, s |-> One], range |-> R(9)]}

\* Arguments of load_ground_truth: a dict with a 'camera' and a 'radar' entry,
\* and one with a 'radar' entry alone (an absent entry is None).
GroundTruths ==
    {[camera |-> Some([height |-> R(2)]),
      radar  |-> Some([x_offset |-> <<7, 2>>])],
     [camera |-> None,
      radar  |-> Some([yaw |-> [c |-> One, s |-> Zero]])]}

\* Points the transforms are asked about.
RadarProbes == {<<R(50), Zero>>, <<R(10), R(2)>>}

BevProbes == {<<R(1), R(20)>>, <<Zero, R(3)>>, <<R(-2), <<9, 2>>>>}

PixelProbes == {<<<<R(640), Zero>>, R(800)>>, <<<<R(700), Zero>>, R(400)>>}

-----------------------------------------------------------------------------
(* OperationsController (src/operations.py 68-266).  A PointPair and a Lane  *)
(* are dataclasses, compared field by field by `in` and list.remove.        *)

\* AppMode
AppModes == {"NORMAL", "SELECT_RADAR", "SELECT_IMAGE", "LANE_START", "LANE_END"}

MAX_PAIRS == 10

\* OperationsController.__init__
NewController ==
    [mode |-> "NORMAL", pairs |-> <<>>, lanes |-> <<>>, current_batch |-> 0,
     pending_radar |-> None, pending_lane_start |-> None,
     pair_undo_stack |-> <<>>, lane_undo_stack |-> <<>>]

\* dict.get(key, default)
DictGet(t, key, default) == IF key \in DOMAIN t THEN t[key] ELSE default

\* list.remove(x): the list without its first element equal to x.
RECURSIVE ListRemove(_, _)
ListRemove(list, x) ==
    IF list = <<>> THEN <<>>
    ELSE IF Head(list) = x THEN Tail(list)
    ELSE <<Head(list)>> \o ListRemove(Tail(list), x)

\* x in list
In(x, list) == \E i \in DOMAIN list : list[i] = x

\* list.pop(): the list without its last element.
Pop(list) == SubSeq(list, 1, Len(list) - 1)

Last(list) == list[Len(list)]

start_pair_selection(c) == [c EXCEPT !.mode = "SELECT_RADAR", !.pending_radar = None]

start_lane_drawing(c) == [c EXCEPT !.mode = "LANE_START", !.pending_lane_start = None]

cancel(c) ==
    [c EXCEPT !.mode = "NORMAL", !.pending_radar = None, !.pending_lane_start = None]

\* select_radar_point that takes the selection whatever the number of pairs.
select_radar_point_unlimited(c, target, proj_u, proj_v) ==
    [ctl |-> [c EXCEPT !.pending_radar =
                           Some([target |-> target, projected_u |-> proj_u,
                                 projected_v |-> proj_v]),
                       !.mode = "SELECT_IMAGE"],
     val |-> TRUE]

\* Each operation with a result gives the controller it leaves (ctl) and the
\* value it returns (val).
select_radar_point(c, target, proj_u, proj_v) ==
    IF Len(c.pairs) >= MAX_PAIRS THEN [ctl |-> c, val |-> FALSE]
    ELSE [ctl |-> [c EXCEPT !.pending_radar =
                                Some([target |-> target, projected_u |-> proj_u,
                                      projected_v |-> proj_v]),
                            !.mode = "SELECT_IMAGE"],
          val |-> TRUE]

select_image_point(c, pixel_u, pixel_v) ==
    IF c.pending_radar = None THEN [ctl |-> c, val |-> None]
    ELSE LET t == Get(c.pending_radar).target
             pair == [batch |-> c.current_batch,
                      radar_id |-> DictGet(t, "id", -1),
                      radar_x |-> DictGet(t, "x", 0),
                      radar_y |-> DictGet(t, "y", 0),
                      radar_u |-> Get(c.pending_radar).projected_u,
                      radar_v |-> Get(c.pending_radar).projected_v,
                      pixel_u |-> pixel_u,
                      pixel_v |-> pixel_v,
                      radar_range |-> DictGet(t, "range", 0),
                      radar_velocity |-> DictGet(t, "velocity", 0),
                      radar_rcs |-> DictGet(t, "rcs", 0)]
             pairs == Append(c.pairs, pair)
         IN  [ctl |-> [c EXCEPT !.pairs = pairs,
                                !.pair_undo_stack = Append(c.pair_undo_stack, pair),
                                !.pending_radar = None,
                                !.mode = IF Len(pairs) < MAX_PAIRS THEN "SELECT_RADAR"
                                         ELSE "NORMAL"],
              val |-> Some(pair)]

set_lane_start(c, x, y) ==
    [c EXCEPT !.pending_lane_start = Some(<<x, y>>), !.mode = "LANE_END"]

set_lane_end(c, x, y) ==
    IF c.pending_lane_start = None THEN [ctl |-> c, val |-> None]
    ELSE LET lane == [start |-> Get(c.pending_lane_start), end |-> <<x, y>>,
                      batch |-> c.current_batch]
         IN  [ctl |-> [c EXCEPT !.lanes = Append(c.lanes, lane),
                                !.lane_undo_stack = Append(c.lane_undo_stack, lane),
                                !.pending_lane_start = None,
                                !.mode = "LANE_START"],
              val |-> Some(lane)]

undo_last_pair(c) ==
    IF c.pair_undo_stack # <<>>
    THEN LET pair == Last(c.pair_undo_stack)
         IN  [ctl |-> [c EXCEPT !.pair_undo_stack = Pop(c.pair_undo_stack),
                                !.pairs = IF In(pair, c.pairs)
                                          THEN ListRemove(c.pairs, pair) ELSE c.pairs],
              val |-> Some(pair)]
    ELSE [ctl |-> c, val |-> None]

undo_last_lane(c) ==
    IF c.lane_undo_stack # <<>>
    THEN LET lane == Last(c.lane_undo_stack)
         IN  [ctl |-> [c EXCEPT !.lane_undo_stack = Pop(c.lane_undo_stack),
                                !.lanes = IF In(lane, c.lanes)
                                          THEN ListRemove(c.lanes, lane) ELSE c.lanes],
              val |-> Some(lane)]
    ELSE [ctl |-> c, val |-> None]

undo_pending(c) ==
    IF c.pending_radar # None
    THEN [ctl |-> [c EXCEPT !.pending_radar = None, !.mode = "SELECT_RADAR"], val |-> TRUE]
    ELSE IF c.pending_lane_start # None
    THEN [ctl |-> [c EXCEPT !.pending_lane_start = None, !.mode = "LANE_START"],
          val |-> TRUE]
    ELSE [ctl |-> c, val |-> FALSE]

clear_all(c) ==
    [c EXCEPT !.pairs = <<>>, !.lanes = <<>>,
              !.pair_undo_stack = <<>>, !.lane_undo_stack = <<>>,
              !.pending_radar = None, !.pending_lane_start = None,
              !.mode = "NORMAL"]

clear_batch(c, batch) ==
    [c EXCEPT !.pairs = SelectSeq(c.pairs, LAMBDA p : p.batch # batch),
              !.lanes = SelectSeq(c.lanes, LAMBDA l : l.batch # batch)]

-----------------------------------------------------------------------------
(* CalibrationManager (src/calib_manager.py) *)

\* for key, val in kwargs.items(): if hasattr(obj, key): setattr(obj, key, val)
SetAllFields(obj, kwargs) == [f \in DOMAIN obj |-> kwargs[CHOOSE k \in DOMAIN kwargs : TRUE]]

\* SetFields that rebuilds the object and so loses a pitch it was not given.
SetFieldsLosingPitch(obj, kwargs) ==
    [f \in DOMAIN obj |-> IF f \in DOMAIN kwargs THEN kwargs[f]
                          ELSE IF f = "pitch" THEN [tan |-> Zero, turn |-> 0]
                          ELSE obj[f]]

SetFields(obj, kwargs) ==
    [f \in DOMAIN obj |-> IF f \in DOMAIN kwargs THEN kwargs[f] ELSE obj[f]]

\* if pitch is not None: self.camera.pitch = pitch
StorePitchOrReset(cam, pitch) ==
    [cam EXCEPT !.pitch = IF pitch # None THEN Get(pitch) ELSE Arctan(Zero)]

StorePitch(cam, pitch) ==
    IF pitch # None THEN [cam EXCEPT !.pitch = Get(pitch)] ELSE cam

\* The line of a lane-list element the loop accepts.
LaneLine(lane) == <<lane.start[1], lane.start[2], lane.end[1], lane.end[2]>>

\* hasattr(lane, 'start') and hasattr(lane, 'end'), or a list/tuple of length 2;
\* anything else is skipped by "continue".
Accepted(lane) == lane.kind = "Lane" \/ lane.kind = "pair"

RECURSIVE AddLanes(_, _)
AddLanes(cal, lanes) ==
    IF lanes = <<>> THEN cal
    ELSE AddLanes(IF Accepted(Head(lanes))
                  THEN add_line(cal, LaneLine(Head(lanes)))
                  ELSE cal,
                  Tail(lanes))

LoadLanesNoClear(cal, lanes) == AddLanes(cal, lanes)

\* compute_pitch_from_lanes, lines 82-96: clear the calibrator, add the lanes.
LoadLanes(cal, lanes) == AddLanes(clear(cal), lanes)

Ret(op, args, val) == [op |-> op, args |-> args, val |-> val]

\* CalibrationManager.__init__
Init ==
    /\ camera = DefaultCamera
    /\ radar = DefaultRadar
    /\ v_calibrator = NewCalibrator
    /\ transformer = NewTransformer(Some("mgr"), Some("mgr"))
    /\ vanishing_lines = <<>>
    /\ held = None
    /\ ops = NewController
    /\ ret = Ret("__init__", <<>>, None)

update_camera_params(kwargs) ==
    /\ camera' = SetFields(camera, kwargs)
    /\ transformer' = NewTransformer(Some("mgr"), Some("mgr"))
    /\ ret' = Ret("update_camera_params", kwargs, None)
    /\ UNCHANGED <<radar, v_calibrator, vanishing_lines, held, ops>>

update_radar_params(kwargs) ==
    /\ radar' = SetFields(radar, kwargs)
    /\ transformer' = NewTransformer(Some("mgr"), Some("mgr"))
    /\ ret' = Ret("update_radar_params", kwargs, None)
    /\ UNCHANGED <<camera, v_calibrator, vanishing_lines, held, ops>>

load_ground_truth(gt) ==
    /\ camera' = IF gt.camera # None THEN SetFields(camera, Get(gt.camera)) ELSE camera
    /\ radar' = IF gt.radar # None THEN SetFields(radar, Get(gt.radar)) ELSE radar
    /\ transformer' = IF gt.camera # None \/ gt.radar # None
                      THEN NewTransformer(Some("mgr"), Some("mgr"))
                      ELSE transformer
    /\ ret' = Ret("load_ground_truth", gt, None)
    /\ UNCHANGED <<v_calibrator, vanishing_lines, held, ops>>

add_vanishing_line(l) ==
    /\ Len(vanishing_lines) < MaxVanishingLines
    /\ v_calibrator' = add_line(v_calibrator, l)
    /\ vanishing_lines' = Append(vanishing_lines, l)
    /\ ret' = Ret("add_vanishing_line", l, None)
    /\ UNCHANGED <<camera, radar, transformer, held, ops>>

undo_vanishing_line ==
    /\ IF vanishing_lines # <<>>
       THEN /\ vanishing_lines' = SubSeq(vanishing_lines, 1, Len(vanishing_lines) - 1)
            /\ v_calibrator' = remove_last_line(v_calibrator).cal
            /\ ret' = Ret("undo_vanishing_line", <<>>, TRUE)
       ELSE /\ UNCHANGED <<vanishing_lines, v_calibrator>>
            /\ ret' = Ret("undo_vanishing_line", <<>>, FALSE)
    /\ UNCHANGED <<camera, radar, transformer, held, ops>>

clear_vanishing_lines ==
    /\ vanishing_lines' = <<>>
    /\ v_calibrator' = clear(v_calibrator)
    /\ ret' = Ret("clear_vanishing_lines", <<>>, None)
    /\ UNCHANGED <<camera, radar, transformer, held, ops>>

compute_pitch_from_vanishing_point ==
    LET r == compute_pitch(v_calibrator, camera.cy, camera.fy)
    IN  /\ v_calibrator' = r.cal
        /\ camera' = StorePitch(camera, r.val)
        /\ transformer' = IF r.val # None
                          THEN NewTransformer(Some("mgr"), Some("mgr"))
                          ELSE transformer
        /\ ret' = Ret("compute_pitch_from_vanishing_point", <<>>, r.val)
        /\ UNCHANGED <<radar, vanishing_lines, held, ops>>

compute_pitch_from_lanes(lanes) ==
    LET r == compute_pitch(LoadLanes(v_calibrator, lanes), camera.cy, camera.fy)
    IN  /\ v_calibrator' = r.cal
        /\ camera' = StorePitch(camera, r.val)
        /\ transformer' = IF r.val # None
                          THEN NewTransformer(Some("mgr"), Some("mgr"))
                          ELSE transformer
        /\ ret' = Ret("compute_pitch_from_lanes", lanes, r.val)
        /\ UNCHANGED <<radar, vanishing_lines, held, ops>>

get_vanishing_point ==
    LET r == compute_vanishing_point(v_calibrator)
    IN  /\ v_calibrator' = r.cal
        /\ ret' = Ret("get_vanishing_point", <<>>, r.val)
        /\ UNCHANGED <<camera, radar, transformer, vanishing_lines, held, ops>>

\* CalibrationManager.radar_to_bev, image_to_bev, bev_to_image: answered by
\* self.transformer with the objects it refers to.
mgr_radar_to_bev(p) ==
    /\ ret' = Ret("radar_to_bev", p, radar_to_bev(RadarOf(transformer), p[1], p[2]))
    /\ UNCHANGED <<camera, radar, transformer, v_calibrator, vanishing_lines, held, ops>>

mgr_image_to_bev(p) ==
    /\ ret' = Ret("image_to_bev", p, image_to_bev(CameraOf(transformer), p[1], p[2]))
    /\ UNCHANGED <<camera, radar, transformer, v_calibrator, vanishing_lines, held, ops>>

mgr_bev_to_image(p) ==
    /\ ret' = Ret("bev_to_image", p, bev_to_image(CameraOf(transformer), p[1], p[2]))
    /\ UNCHANGED <<camera, radar, transformer, v_calibrator, vanishing_lines, held, ops>>

\* A caller reads mgr.transformer, keeps the reference and calls it (as the
\* drawing code of the UI does): held is that transformer with what it
\* returned at the time.
Answers(T) ==
    [radar_to_bev |-> [p \in RadarProbes |-> radar_to_bev(RadarOf(T), p[1], p[2])],
     bev_to_image |-> [p \in BevProbes |-> bev_to_image(CameraOf(T), p[1], p[2])]]

obtain_transformer ==
    /\ held' = Some([t |-> transformer, out |-> Answers(transformer)])
    /\ ret' = Ret("obtain_transformer", <<>>, None)
    /\ UNCHANGED <<camera, radar, transformer, v_calibrator, vanishing_lines, ops>>

-----------------------------------------------------------------------------
(* Calls made on a VanishingPointCalibrator directly *)

call_add_line(l) ==
    /\ Len(v_calibrator.lines) < MaxLines
    /\ v_calibrator' = add_line(v_calibrator, l)
    /\ ret' = Ret("add_line", l, None)
    /\ UNCHANGED <<camera, radar, transformer, vanishing_lines, held, ops>>

call_clear ==
    /\ v_calibrator' = clear(v_calibrator)
    /\ ret' = Ret("clear", <<>>, None)
    /\ UNCHANGED <<camera, radar, transformer, vanishing_lines, held, ops>>

call_remove_last_line ==
    LET r == remove_last_line(v_calibrator)
    IN  /\ v_calibrator' = r.cal
        /\ ret' = Ret("remove_last_line", <<>>, r.val)
        /\ UNCHANGED <<camera, radar, transformer, vanishing_lines, held, ops>>

call_compute_vanishing_point ==
    LET r == compute_vanishing_point(v_calibrator)
    IN  /\ v_calibrator' = r.cal
        /\ ret' = Ret("compute_vanishing_point", <<>>, r.val)
        /\ UNCHANGED <<camera, radar, transformer, vanishing_lines, held, ops>>

call_compute_pitch(cy, fy) ==
    LET r == compute_pitch(v_calibrator, cy, fy)
    IN  /\ v_calibrator' = r.cal
        /\ ret' = Ret("compute_pitch", <<cy, fy>>, r.val)
        /\ UNCHANGED <<camera, radar, transformer, vanishing_lines, held, ops>>

-----------------------------------------------------------------------------
(* Calls made on a CoordinateTransformer directly *)

\* Parameter objects a transformer is built on.
\* The last camera looks up so steeply that the nearest sample point of
\* get_camera_bev_homography lies behind it.
XfCameras ==
    {[height |-> h, pitch |-> [tan |-> t, turn |-> k],
      fx |-> R(1000), fy |-> R(1000), cx |-> R(640), cy |-> R(480)] :
        h \in {R(-1), Zero, One, <<3, 2>>}, t \in {Zero, <<3, 4>>, <<-1, 2>>}, k \in {0, 1}}
    \cup {[height |-> <<3, 2>>, pitch |-> [tan |-> R(-12), turn |-> 0],
           fx |-> R(1000), fy |-> R(1000), cx |-> R(640), cy |-> R(480)]}

\* Yaw 0, 90, 180, 270 degrees and the angle with cosine 3/5 and sine 4/5.
XfRadars ==
    {[yaw |-> y, elev |-> Zero, x_offset |-> ox, y_offset |-> oy] :
        y \in {[c |-> One, s |-> Zero], [c |-> Zero, s |-> One],
               [c |-> R(-1), s |-> Zero], [c |-> Zero, s |-> R(-1)],
               [c |-> <<3, 5>>, s |-> <<4, 5>>]},
        ox \in {<<7, 2>>, Zero}, oy \in {Zero, R(-1)}}

InitXf ==
    /\ camera \in XfCameras
    /\ radar \in XfRadars
    /\ v_calibrator = NewCalibrator
    /\ transformer = NewTransformer(Some("mgr"), Some("mgr"))
    /\ vanishing_lines = <<>>
    /\ held = None
    /\ ops = NewController
    /\ ret = Ret("__init__", <<>>, None)

call_radar_to_bev(p) ==
    /\ ret' = Ret("radar_to_bev", p, radar_to_bev(RadarOf(transformer), p[1], p[2]))
    /\ UNCHANGED <<camera, radar, transformer, v_calibrator, vanishing_lines, held, ops>>

call_bev_to_radar(p) ==
    /\ ret' = Ret("bev_to_radar", p, bev_to_radar(RadarOf(transformer), p[1], p[2]))
    /\ UNCHANGED <<camera, radar, transformer, v_calibrator, vanishing_lines, held, ops>>

\* image_to_bev storing the angle -pitch it rotates the ray by in the camera.
call_image_to_bev_storing(p) ==
    /\ ret' = Ret("image_to_bev", p, image_to_bev(CameraOf(transformer), p[1], p[2]))
    /\ camera' = [camera EXCEPT !.pitch = NegAngle(camera.pitch)]
    /\ UNCHANGED <<radar, transformer, v_calibrator, vanishing_lines, held, ops>>

call_image_to_bev(p) ==
    /\ ret' = Ret("image_to_bev", p, image_to_bev(CameraOf(transformer), p[1], p[2]))
    /\ UNCHANGED <<camera, radar, transformer, v_calibrator, vanishing_lines, held, ops>>

call_bev_to_image(p) ==
    /\ ret' = Ret("bev_to_image", p, bev_to_image(CameraOf(transformer), p[1], p[2]))
    /\ UNCHANGED <<camera, radar, transformer, v_calibrator, vanishing_lines, held, ops>>

call_get_radar_bev_homography ==
    /\ ret' = Ret("get_radar_bev_homography", <<>>,
                  get_radar_bev_homography(RadarOf(transformer)))
    /\ UNCHANGED <<camera, radar, transformer, v_calibrator, vanishing_lines, held, ops>>

call_get_camera_bev_homography ==
    /\ ret' = Ret("get_camera_bev_homography", <<>>,
                  get_camera_bev_homography(CameraOf(transformer)))
    /\ UNCHANGED <<camera, radar, transformer, v_calibrator, vanishing_lines, held, ops>>

\* Parameter objects the optimizer is run on: unit focal lengths, so a grid
\* step of one pixel is a step of 1 in tan(pitch), and the radar mounted at the
\* camera's forward position.  Two of the cameras have a pitch outside
\* (-pi/2, pi/2).
OptCameras ==
    {[height |-> h, pitch |-> [tan |-> t, turn |-> 0],
      fx |-> One, fy |-> One, cx |-> Zero, cy |-> Zero] :
        h \in {One, R(2)}, t \in {R(-2), R(-1), Zero, One, R(2)}}
    \cup
    {[height |-> One, pitch |-> [tan |-> t, turn |-> 1],
      fx |-> One, fy |-> One, cx |-> Zero, cy |-> Zero] : t \in {Zero, One}}

OptRadars ==
    {[yaw |-> [c |-> One, s |-> Zero], elev |-> Zero,
      x_offset |-> x, y_offset |-> <<7, 2>>] : x \in {R(-1), Zero, One}}

Pair(rx, ry, u, v) ==
    [radar_x |-> R(rx), radar_y |-> R(ry), pixel_u |-> R(u), pixel_v |-> R(v)]

\* Correspondence lists: none; one target ahead; two targets, one of them under
\* the camera; a target under the camera seen far down the image; a target
\* far behind; the last two kinds together.
OptPairLists ==
    {<<>>,
     <<Pair(5, 0, 0, 1)>>,
     <<Pair(5, 0, 0, 1), Pair(0, 1, 0, 0)>>,
     <<Pair(0, 0, 0, 350)>>,
     <<Pair(-200, 0, 0, 0)>>,
     <<Pair(0, 1, 0, 0), Pair(-200, 0, 0, 0)>>}

\* The optimizer is started from pitches with |tan| up to this.
MaxStartTan == 2

InitOpt ==
    /\ camera \in OptCameras
    /\ radar \in OptRadars
    /\ v_calibrator = NewCalibrator
    /\ transformer = NewTransformer(Some("mgr"), Some("mgr"))
    /\ vanishing_lines = <<>>
    /\ held = None
    /\ ops = NewController
    /\ ret = Ret("__init__", <<>>, None)

call_optimize_pitch(pairs, search_range) ==
    /\ RLe(camera.pitch.tan, R(MaxStartTan))
    /\ RLe(R(-MaxStartTan), camera.pitch.tan)
    /\ \E r \in {optimize_pitch(CameraOf(transformer), RadarOf(transformer),
                                 pairs, search_range)} :
           /\ camera' = r.camera
           /\ ret' = [op |-> "optimize_pitch",
                       args |-> [pairs |-> pairs, search_range |-> search_range],
                       val |-> r.val,
                       work |-> [candidates |-> r.candidates, calls |-> r.calls]]
    /\ UNCHANGED <<radar, transformer, v_calibrator, vanishing_lines, held, ops>>

-----------------------------------------------------------------------------
(* fit_homography (src/calibration.py 516-535) *)

\* An exception leaving a call.
Raised(e) == <<"raised", e>>

\* cv2.findHomography as a caller meets it: it raises cv2.error for point
\* sets of different sizes and for fewer than 4 correspondences, and fits
\* otherwise.
cv2_findHomography(src, dst) ==
    IF Len(src) # Len(dst) \/ Len(src) < 4 THEN Raised("cv2.error")
    ELSE findHomography(src, dst)

\* fit_homography without its length test and without its try.
fit_homography_unguarded(src_pts, dst_pts) == cv2_findHomography(src_pts, dst_pts)

\* fit_homography: the matrix, or None.  The bare except turns every
\* exception of cv2.findHomography into None.
fit_homography(src_pts, dst_pts) ==
    IF Len(src_pts) < 4 \/ Len(dst_pts) < 4 THEN None
    ELSE LET H == cv2_findHomography(src_pts, dst_pts)
         IN  IF H = Raised("cv2.error") THEN None ELSE H

\* Points in general position, points on the diagonal y = x and points on
\* the axis y = 0.
GeneralPoints == <<<<Zero, Zero>>, <<One, Zero>>, <<Zero, One>>, <<One, One>>, <<R(2), R(3)>>>>

DiagonalPoints == <<<<Zero, Zero>>, <<One, One>>, <<R(2), R(2)>>, <<R(3), R(3)>>, <<R(4), R(4)>>>>

AxisPoints == <<<<Zero, Zero>>, <<One, Zero>>, <<R(2), Zero>>, <<R(3), Zero>>, <<R(4), Zero>>>>

\* The point lists fit_homography is called on: the lists of 0 to 5 points
\* in general position and the collinear lists of 3 to 5 points.
FitPointLists ==
    {SubSeq(GeneralPoints, 1, n) : n \in 0..5}
        \cup {SubSeq(DiagonalPoints, 1, n) : n \in 3..5}
        \cup {SubSeq(AxisPoints, 1, n) : n \in 3..5}

call_fit_homography(src_pts, dst_pts) ==
    /\ ret' = Ret("fit_homography", <<src_pts, dst_pts>>, fit_homography(src_pts, dst_pts))
    /\ UNCHANGED <<camera, radar, transformer, v_calibrator, vanishing_lines, held, ops>>

-----------------------------------------------------------------------------

(* The UI's calls on the manager (src/main.py) *)

\* The attributes a CalibrationManager has: the fields __init__ sets and the
\* methods the class defines.
ManagerAttributes ==
    {"vanishing_lines", "camera", "radar", "v_calibrator", "transformer",
     "is_calibrated", "num_vanishing_lines", "update_camera_params",
     "update_radar_params", "add_vanishing_line", "undo_vanishing_line",
     "clear_vanishing_lines", "compute_pitch_from_vanishing_point",
     "compute_pitch_from_lanes", "get_vanishing_point", "radar_to_bev",
     "image_to_bev", "bev_to_image", "load_ground_truth"}

\* The names the UI looks up on self.calib_mgr.
UINames ==
    {"optimize_pitch", "get_radar_bev_homography", "get_camera_bev_homography",
     "compute_pitch_from_lanes", "transformer", "radar_to_bev", "image_to_bev",
     "bev_to_image", "bev_to_radar"}

\* self.calib_mgr.<name>: the attribute, or AttributeError.
mgr_getattr(name) ==
    /\ ret' = Ret("getattr", name,
                  IF name \in ManagerAttributes THEN "found" ELSE "AttributeError")
    /\ UNCHANGED <<camera, radar, transformer, v_calibrator, vanishing_lines, held, ops>>

\* MainWindow._onOptimizePitch with the correspondences load_all_point_pairs
\* returned: a warning for none, else self.calib_mgr.optimize_pitch(pairs,
\* search_range=50); any exception ends in the error dialog.
on_optimize_pitch(pairs) ==
    IF pairs = <<>>
    THEN /\ ret' = Ret("_onOptimizePitch", pairs, "Warning")
         /\ UNCHANGED <<camera, radar, transformer, v_calibrator, vanishing_lines, held, ops>>
    ELSE IF "optimize_pitch" \notin ManagerAttributes
    THEN /\ ret' = Ret("_onOptimizePitch", pairs, "Error")
         /\ UNCHANGED <<camera, radar, transformer, v_calibrator, vanishing_lines, held, ops>>
    ELSE /\ \E r \in {optimize_pitch(CameraOf(transformer), RadarOf(transformer),
                                     pairs, R(50))} : camera' = r.camera
         /\ ret' = Ret("_onOptimizePitch", pairs, "Success")
         /\ UNCHANGED <<radar, transformer, v_calibrator, vanishing_lines, held, ops>>

\* MainWindow._onSaveParams: reads the parameters, then asks the manager for
\* the two homographies; any exception ends in the error dialog.
on_save_params ==
    /\ ret' = Ret("_onSaveParams", <<>>,
                  IF /\ "get_radar_bev_homography" \in ManagerAttributes
                     /\ "get_camera_bev_homography" \in ManagerAttributes
                  THEN "Saved" ELSE "Error")
    /\ UNCHANGED <<camera, radar, transformer, v_calibrator, vanishing_lines, held, ops>>

-----------------------------------------------------------------------------
(* Calls made on the OperationsController, and the main window's change of  *)
(* batch (src/main.py 517-565)                                               *)

\* A radar target as the viewport hands it over (a dict; range, velocity and
\* rcs are absent from it), its projected pixel, and the pixel picked for it.
OpsTargets == {[id |-> 7, x |-> 10, y |-> 2]}

OpsPixels == {<<650, 410>>}

\* The end points of a lane.
OpsLanePoints == {<<200, 400>>}

OpsBatches == {0, 1}

\* The undo stacks grow without limit in the program; the model stops adding
\* to a stack of this length.
MaxUndo == 2

\* The same for the runs that fill the pair list up to MAX_PAIRS.
MaxPairUndo == 11

ops_start_pair_selection ==
    /\ ops' = start_pair_selection(ops)
    /\ ret' = Ret("start_pair_selection", <<>>, None)
    /\ UNCHANGED <<camera, radar, transformer, v_calibrator, vanishing_lines, held>>

ops_start_lane_drawing ==
    /\ ops' = start_lane_drawing(ops)
    /\ ret' = Ret("start_lane_drawing", <<>>, None)
    /\ UNCHANGED <<camera, radar, transformer, v_calibrator, vanishing_lines, held>>

ops_cancel ==
    /\ ops' = cancel(ops)
    /\ ret' = Ret("cancel", <<>>, None)
    /\ UNCHANGED <<camera, radar, transformer, v_calibrator, vanishing_lines, held>>

ops_select_radar_point(target, proj) ==
    /\ \E r \in {select_radar_point(ops, target, proj[1], proj[2])} :
           /\ ops' = r.ctl
           /\ ret' = Ret("select_radar_point", <<target, proj>>, r.val)
    /\ UNCHANGED <<camera, radar, transformer, v_calibrator, vanishing_lines, held>>

ops_select_image_point(pixel, cap) ==
    /\ Len(ops.pair_undo_stack) < cap
    /\ \E r \in {select_image_point(ops, pixel[1], pixel[2])} :
           /\ ops' = r.ctl
           /\ ret' = Ret("select_image_point", pixel, r.val)
    /\ UNCHANGED <<camera, radar, transformer, v_calibrator, vanishing_lines, held>>

ops_set_lane_start(p) ==
    /\ ops' = set_lane_start(ops, p[1], p[2])
    /\ ret' = Ret("set_lane_start", p, None)
    /\ UNCHANGED <<camera, radar, transformer, v_calibrator, vanishing_lines, held>>

ops_set_lane_end(p) ==
    /\ Len(ops.lane_undo_stack) < MaxUndo
    /\ \E r \in {set_lane_end(ops, p[1], p[2])} :
           /\ ops' = r.ctl
           /\ ret' = Ret("set_lane_end", p, r.val)
    /\ UNCHANGED <<camera, radar, transformer, v_calibrator, vanishing_lines, held>>

ops_undo_last_pair ==
    /\ \E r \in {undo_last_pair(ops)} :
           /\ ops' = r.ctl
           /\ ret' = Ret("undo_last_pair", <<>>, r.val)
    /\ UNCHANGED <<camera, radar, transformer, v_calibrator, vanishing_lines, held>>

ops_undo_last_lane ==
    /\ \E r \in {undo_last_lane(ops)} :
           /\ ops' = r.ctl
           /\ ret' = Ret("undo_last_lane", <<>>, r.val)
    /\ UNCHANGED <<camera, radar, transformer, v_calibrator, vanishing_lines, held>>

ops_undo_pending ==
    /\ \E r \in {undo_pending(ops)} :
           /\ ops' = r.ctl
           /\ ret' = Ret("undo_pending", <<>>, r.val)
    /\ UNCHANGED <<camera, radar, transformer, v_calibrator, vanishing_lines, held>>

ops_clear_all ==
    /\ ops' = clear_all(ops)
    /\ ret' = Ret("clear_all", <<>>, None)
    /\ UNCHANGED <<camera, radar, transformer, v_calibrator, vanishing_lines, held>>

ops_clear_batch(batch) ==
    /\ ops' = clear_batch(ops, batch)
    /\ ret' = Ret("clear_batch", batch, None)
    /\ UNCHANGED <<camera, radar, transformer, v_calibrator, vanishing_lines, held>>

\* MainWindow._loadBatch, as far as it acts on the controller: it sets
\* current_batch, cancels, and re-enters the mode of the checked radio button.
load_batch(idx, radio_pair) ==
    /\ ops' = IF radio_pair
              THEN start_pair_selection(cancel([ops EXCEPT !.current_batch = idx]))
              ELSE start_lane_drawing(cancel([ops EXCEPT !.current_batch = idx]))
    /\ ret' = Ret("_loadBatch", <<idx, radio_pair>>, None)
    /\ UNCHANGED <<camera, radar, transformer, v_calibrator, vanishing_lines, held>>

-----------------------------------------------------------------------------
(* Specifications *)

\* The manager's parameters and the transforms it answers.
Next ==
    \/ \E kw \in CameraKwargs : update_camera_params(kw)
    \/ \E kw \in RadarKwargs : update_radar_params(kw)
    \/ \E gt \in GroundTruths : load_ground_truth(gt)
    \/ compute_pitch_from_vanishing_point
    \/ \E lanes \in LaneLists : compute_pitch_from_lanes(lanes)
    \/ \E p \in RadarProbes : mgr_radar_to_bev(p)
    \/ \E p \in PixelProbes : mgr_image_to_bev(p)
    \/ \E p \in BevProbes : mgr_bev_to_image(p)

Spec == Init /\ [][Next]_vars

\* The manager's vanishing lines and the pitch computed from lines.
NextLines ==
    \/ \E l \in ManagerLines : add_vanishing_line(l)
    \/ undo_vanishing_line
    \/ clear_vanishing_lines
    \/ compute_pitch_from_vanishing_point
    \/ \E lanes \in LaneLists : compute_pitch_from_lanes(lanes)
    \/ get_vanishing_point

SpecLines == Init /\ [][NextLines]_vars

\* A caller that keeps a transformer while the manager's parameters change.
NextHold ==
    \/ obtain_transformer
    \/ \E kw \in CameraKwargs : update_camera_params(kw)
    \/ \E kw \in RadarKwargs : update_radar_params(kw)
    \/ \E lanes \in LaneLists : compute_pitch_from_lanes(lanes)
    \/ compute_pitch_from_vanishing_point

SpecHold == Init /\ [][NextHold]_vars

\* A calibrator used on its own.
NextVP ==
    \/ \E l \in LineInputs : call_add_line(l)
    \/ call_clear
    \/ call_remove_last_line
    \/ call_compute_vanishing_point
    \/ call_compute_pitch(R(480), R(1000))

SpecVP == Init /\ [][NextVP]_vars

\* A transformer used on its own, on every parameter set of XfCameras and
\* XfRadars.
NextXf ==
    \/ \E p \in RadarProbes : call_radar_to_bev(p)
    \/ \E p \in BevProbes \cup {<<<<3, 2>>, R(10)>>} : call_bev_to_radar(p)
    \/ \E p \in PixelProbes \cup {<<<<R(640), Zero>>, <<4801, 10>>>>} : call_image_to_bev(p)
    \/ \E p \in BevProbes \cup {<<Zero, <<71, 20>>>>} : call_bev_to_image(p)
    \/ call_get_radar_bev_homography
    \/ call_get_camera_bev_homography

SpecXf == InitXf /\ [][NextXf]_vars

\* The grid search, run on every parameter set of OptCameras and OptRadars.
NextOpt ==
    \/ \E pairs \in OptPairLists : call_optimize_pitch(pairs, R(50))

SpecOpt == InitOpt /\ [][NextOpt]_vars

\* The UI's handlers and lookups while the parameters are configured.
NextUI ==
    \/ \E kw \in CameraKwargs : update_camera_params(kw)
    \/ \E kw \in RadarKwargs : update_radar_params(kw)
    \/ \E name \in UINames : mgr_getattr(name)
    \/ \E pairs \in OptPairLists : on_optimize_pitch(pairs)
    \/ on_save_params

SpecUI == Init /\ [][NextUI]_vars

\* fit_homography, a function of the module, called on its own.
NextFit ==
    \/ \E src_pts \in FitPointLists, dst_pts \in FitPointLists :
           call_fit_homography(src_pts, dst_pts)

SpecFit == Init /\ [][NextFit]_vars

\* The operations of the controller in any order, on two batches.
NextOps ==
    \/ ops_start_pair_selection
    \/ ops_start_lane_drawing
    \/ ops_cancel
    \/ \E t \in OpsTargets : ops_select_radar_point(t, <<640, 400>>)
    \/ \E p \in OpsPixels : ops_select_image_point(p, MaxUndo)
    \/ \E p \in OpsLanePoints : ops_set_lane_start(p)
    \/ \E p \in OpsLanePoints : ops_set_lane_end(p)
    \/ ops_undo_last_pair
    \/ ops_undo_last_lane
    \/ ops_undo_pending
    \/ ops_clear_all
    \/ \E b \in OpsBatches : ops_clear_batch(b)
    \/ \E b \in OpsBatches, radio_pair \in BOOLEAN : load_batch(b, radio_pair)

SpecOps == Init /\ [][NextOps]_vars

\* The operations of the controller in any order, on one batch, with room
\* for more than MAX_PAIRS pairs.
NextPairs ==
    \/ ops_start_pair_selection
    \/ ops_start_lane_drawing
    \/ ops_cancel
    \/ \E t \in OpsTargets : ops_select_radar_point(t, <<640, 400>>)
    \/ \E p \in OpsPixels : ops_select_image_point(p, MaxPairUndo)
    \/ \E p \in OpsLanePoints : ops_set_lane_start(p)
    \/ \E p \in OpsLanePoints : ops_set_lane_end(p)
    \/ ops_undo_last_pair
    \/ ops_undo_last_lane
    \/ ops_undo_pending
    \/ ops_clear_all
    \/ ops_clear_batch(0)

SpecPairs == Init /\ [][NextPairs]_vars

-----------------------------------------------------------------------------
(* Claims *)

\* C1 (as claimed): a transformer obtained from the manager keeps returning
\* what it returned when it was obtained, whatever update_camera_params,
\* update_radar_params or a pitch computation does afterwards.
C1_HeldTransformerKeepsAnswers ==
    held # None => Answers(Get(held).t) = Get(held).out

\* C2: a compute_pitch_from_lanes or compute_pitch_from_vanishing_point call
\* that returns None leaves every field of CameraParams and RadarParams as it
\* was before the call.
C2_FailedPitchKeepsParams ==
    [][(/\ ret'.op \in {"compute_pitch_from_lanes", "compute_pitch_from_vanishing_point"}
        /\ ret'.val = None)
       => (camera' = camera /\ radar' = radar)]_vars

\* A failed computation after an earlier one had stored a pitch.
C2_Witness ==
    /\ ret.op = "compute_pitch_from_lanes"
    /\ ret.val = None
    /\ camera.pitch # DefaultCamera.pitch

\* C3: whatever add_line, remove_last_line, clear and compute_vanishing_point
\* calls came before, compute_vanishing_point returns what a fresh calibrator
\* holding the current line list returns.
C3_NeverStale ==
    ret.op = "compute_vanishing_point" => ret.val = FreshVP(v_calibrator.lines)

\* A point returned for three lines that differs from the point of the first
\* two, which is what an earlier query would have cached.
C3_Witness ==
    /\ ret.op = "compute_vanishing_point"
    /\ Len(v_calibrator.lines) = 3
    /\ ret.val # None
    /\ FreshVP(SubSeq(v_calibrator.lines, 1, 2)) # None
    /\ FreshVP(SubSeq(v_calibrator.lines, 1, 2)) # ret.val

\* Two usable lines of ls that are not parallel to each other.
TwoNonParallel(ls) ==
    \E i, j \in 1..Len(ls) :
        LET h1 == HomoLine(ls[i])
            h2 == HomoLine(ls[j])
        IN  Usable(h1) /\ Usable(h2) /\ h1.a * h2.b - h2.a * h1.b # 0

\* C4 (as claimed): compute_vanishing_point returns None for every line set
\* without two usable, mutually non-parallel lines, however many lines it has.
C4_ParallelIsUndefined ==
    (ret.op = "compute_vanishing_point" /\ ~TwoNonParallel(v_calibrator.lines))
        => ret.val = None

\* C5: the transforms the manager answers are computed with the manager's
\* current CameraParams and RadarParams.
C5_TransformsUseCurrentParams ==
    /\ ret.op = "radar_to_bev"
         => ret.val = radar_to_bev(radar, ret.args[1], ret.args[2])
    /\ ret.op = "image_to_bev"
         => ret.val = image_to_bev(camera, ret.args[1], ret.args[2])
    /\ ret.op = "bev_to_image"
         => ret.val = bev_to_image(camera, ret.args[1], ret.args[2])

\* radar_to_bev answered after the radar offset was changed, with a result
\* the initial offset does not give.
C5_Witness ==
    /\ ret.op = "radar_to_bev"
    /\ radar.x_offset # DefaultRadar.x_offset
    /\ ret.val # radar_to_bev(DefaultRadar, ret.args[1], ret.args[2])

\* The lines of the elements of a lane list that the loop accepts, in order.
AcceptedLines(lanes) ==
    LET acc == SelectSeq(lanes, Accepted)
    IN  [i \in 1..Len(acc) |-> LaneLine(acc[i])]

\* C10 (as claimed): after compute_pitch_from_lanes(lanes) the calibrator's
\* line list is the supplied list, every element of it, in order.
C10_AllLanesLoaded ==
    ret.op = "compute_pitch_from_lanes"
        => v_calibrator.lines = [i \in 1..Len(ret.args) |-> LaneLine(ret.args[i])]

\* C10 (amended): after compute_pitch_from_lanes(lanes) the calibrator's line
\* list is, in order, the supplied elements that are objects with start and end
\* or two-element sequences (any other element is skipped), whatever it held
\* before; the returned pitch is the one computed from that list, and when
\* defined it is the stored CameraParams.pitch.
C10_AcceptedLanesLoaded ==
    ret.op = "compute_pitch_from_lanes"
        => /\ v_calibrator.lines = AcceptedLines(ret.args)
           /\ ret.val = compute_pitch([lines |-> AcceptedLines(ret.args),
                                       vanishing_point |-> None],
                                      camera.cy, camera.fy).val
           /\ ret.val # None => camera.pitch = Get(ret.val)

\* Two lanes and, between them, an element that is skipped, loaded with a
\* defined pitch after the manager was given two vanishing lines.
C10_Witness ==
    /\ ret.op = "compute_pitch_from_lanes"
    /\ ret.args = <<LaneA, LaneFlat, LaneB>>
    /\ v_calibrator.lines = <<LaneLine(LaneA), LaneLine(LaneB)>>
    /\ ret.val # None
    /\ Len(vanishing_lines) = 2

\* C7: bev_to_radar undoes radar_to_bev and radar_to_bev undoes bev_to_radar,
\* for every yaw, offset and point.
C7_RadarBevRoundTrip ==
    /\ ret.op = "radar_to_bev"
         => bev_to_radar(radar, ret.val[1], ret.val[2]) = ret.args
    /\ ret.op = "bev_to_radar"
         => radar_to_bev(radar, ret.val[1], ret.val[2]) = ret.args

\* bev_to_radar under a yaw that mixes both axes and with both offsets set.
C7_Witness ==
    /\ ret.op = "bev_to_radar"
    /\ radar.yaw = [c |-> <<3, 5>>, s |-> <<4, 5>>]
    /\ radar.x_offset # Zero
    /\ radar.y_offset # Zero

\* image_to_bev applied to the pixel bev_to_image returned for the ground
\* point <<x, y>> is defined and is that point.
RoundTripHolds ==
    image_to_bev(camera, Get(ret.val)[1], Get(ret.val)[2])
        = Some(<<<<ret.args[1], Zero>>, ret.args[2]>>)

\* C8 (as claimed): for every parameter set with height >= 0 and fx, fy > 0 and
\* every ground point for which bev_to_image returns a pixel, image_to_bev of
\* that pixel is defined and is the point.
C8_RoundTripAnyHeight ==
    (ret.op = "bev_to_image" /\ ret.val # None) => RoundTripHolds

\* C8 (amended): the same for every parameter set with height > 0.
C8_RoundTripPositiveHeight ==
    (ret.op = "bev_to_image" /\ ret.val # None /\ RLt(Zero, camera.height))
        => RoundTripHolds

\* A pixel returned for a point off the centre line, under a non-zero pitch
\* and a positive height.
C8_Witness ==
    /\ ret.op = "bev_to_image"
    /\ ret.val # None
    /\ ret.args[1] # Zero
    /\ camera.pitch.tan # Zero
    /\ RLt(Zero, camera.height)

\* C9: the matrix get_radar_bev_homography returns has the rows
\* [-sin, -cos, x_offset], [cos, -sin, y_offset], [0, 0, 1], and times
\* [x, y, 1] it gives [x_bev, y_bev, 1] with (x_bev, y_bev) = radar_to_bev(x, y).
C9_HomographyIsRadarToBev ==
    ret.op = "get_radar_bev_homography"
        => /\ ret.val = <<<<RNeg(radar.yaw.s), RNeg(radar.yaw.c), radar.x_offset>>,
                          <<radar.yaw.c, RNeg(radar.yaw.s), radar.y_offset>>,
                          <<Zero, Zero, One>>>>
           /\ \A p \in RadarProbes :
                LET b == radar_to_bev(radar, p[1], p[2])
                IN  Apply(ret.val, p[1], p[2]) = <<b[1], b[2], One>>

\* The matrix of a yaw that mixes both axes, with both offsets set.
C9_Witness ==
    /\ ret.op = "get_radar_bev_homography"
    /\ radar.yaw = [c |-> <<3, 5>>, s |-> <<4, 5>>]
    /\ radar.x_offset # Zero
    /\ radar.y_offset # Zero

\* The 101 candidates of a search started from the camera parameters cp, each
\* with the pitch derived from it, its total error (the squared pixel error of
\* every correspondence whose projection is defined plus 100000 for every
\* correspondence whose projection is undefined) and whether any
\* correspondence has a defined projection under it.
ClaimedPenalty == 100000

ProjectionOf(cp, rp, p) ==
    bev_to_image(cp, radar_to_bev(rp, p.radar_x, p.radar_y)[1],
                     radar_to_bev(rp, p.radar_x, p.radar_y)[2])

RECURSIVE TotalError(_, _, _)
TotalError(cp, rp, pairs) ==
    IF pairs = <<>> THEN Zero
    ELSE RAdd(CHOOSE e \in {IF res # None
                            THEN SquaredDistance(cp, Get(res), Head(pairs))
                            ELSE R(ClaimedPenalty) :
                            res \in {ProjectionOf(cp, rp, Head(pairs))}} : TRUE,
              TotalError(cp, rp, Tail(pairs)))

CandidateTable(cp, rp, pairs, search_range) ==
    {[pitch |-> c.pitch,
      error |-> TotalError(c, rp, pairs),
      defined |-> \E i \in 1..Len(pairs) : ProjectionOf(c, rp, pairs[i]) # None] :
        c \in {[cp EXCEPT !.pitch =
                   PitchOfVpY(cp, SearchVal(VpYOf(cp), search_range, k))] :
               k \in 0..100}}

\* C6 (as claimed): an optimize_pitch call with a non-empty correspondence
\* list leaves the stored pitch equal to the pitch of one of the 101 candidates,
\* and that candidate's total error is the minimum over all 101 candidates.
C6_MinimumOverAllCandidates ==
    [][(ret'.op = "optimize_pitch" /\ ret'.args.pairs # <<>>)
         => \A T \in {CandidateTable(camera, radar, ret'.args.pairs,
                                     ret'.args.search_range)} :
              \E a \in T : /\ a.pitch = camera'.pitch
                           /\ \A b \in T : RLe(a.error, b.error)]_vars

\* C6 (amended): an optimize_pitch call with a non-empty correspondence list
\* leaves the stored pitch equal to the pitch of one of the 101 candidates; when
\* some candidate has a correspondence with a defined projection, the kept
\* candidate has one too and its total error is the minimum over the
\* candidates that have one.
C6_MinimumOverDefinedCandidates ==
    [][(ret'.op = "optimize_pitch" /\ ret'.args.pairs # <<>>)
         => \A T \in {CandidateTable(camera, radar, ret'.args.pairs,
                                     ret'.args.search_range)} :
              \E a \in T :
                 /\ a.pitch = camera'.pitch
                 /\ (\E b \in T : b.defined)
                      => /\ a.defined
                         /\ \A b \in T : b.defined => RLe(a.error, b.error)]_vars

\* A search over two correspondences of which one projects under no candidate
\* and the other only under some: the kept pitch is one under which it does.
C6_Witness ==
    /\ ret.op = "optimize_pitch"
    /\ ret.args.pairs = <<Pair(0, 1, 0, 0), Pair(-200, 0, 0, 0)>>
    /\ ret.val = camera.pitch
    /\ RLe(One, camera.pitch.tan)

\* The operations of the engine.
EngineOperations ==
    {"radar_to_bev", "bev_to_radar", "image_to_bev", "bev_to_image",
     "optimize_pitch", "get_radar_bev_homography", "get_camera_bev_homography"}

\* C11 (as claimed): every engine operation is found on the manager, and the
\* UI's optimize-pitch and save-parameters handlers never end in the error
\* dialog.
C11_ManagerAnswersEngineOperations ==
    /\ (ret.op = "getattr" /\ ret.args \in EngineOperations) => ret.val = "found"
    /\ ret.op \in {"_onOptimizePitch", "_onSaveParams"} => ret.val # "Error"

\* C12: optimize_pitch with an empty correspondence list returns the pitch
\* the camera had and leaves CameraParams and RadarParams as they were.
C12_EmptyListIsNoOp ==
    [][(ret'.op = "optimize_pitch" /\ ret'.args.pairs = <<>>)
         => /\ ret'.val = camera.pitch
            /\ camera' = camera
            /\ radar' = radar]_vars

\* An empty list given to a camera whose pitch is outside (-pi/2, pi/2), the
\* pitch a search would not give back.
C12_Witness ==
    /\ ret.op = "optimize_pitch"
    /\ ret.args.pairs = <<>>
    /\ camera.pitch.turn = 1
    /\ ret.val = camera.pitch

C14_DefinedFromSecondLine ==
    ret.op = "compute_vanishing_point"
        => /\ Len(v_calibrator.lines) <= 1 => ret.val = None
           /\ (Len(v_calibrator.lines) = 2 /\ TwoNonParallel(v_calibrator.lines))
                => ret.val # None

\* A point returned for two crossing lines.
C14_Witness ==
    /\ ret.op = "compute_vanishing_point"
    /\ Len(v_calibrator.lines) = 2
    /\ TwoNonParallel(v_calibrator.lines)
    /\ ret.val # None

IsUsableLine(l) == Usable(HomoLine(l))

\* The point pt = <<x, y>> satisfies a*x + b*y + c = 0 for the line through
\* the endpoints of l.
OnLine(l, pt) ==
    RAdd(RAdd(RMul(R(HomoLine(l).a), pt[1]), RMul(R(HomoLine(l).b), pt[2])),
         R(HomoLine(l).c)) = Zero

\* C15: when exactly two of the calibrator's lines are usable and they are not
\* parallel, compute_vanishing_point returns a point that lies on both; for
\* (0,0)-(10,10) and (0,10)-(10,0) it returns (5, 5).
C15_TwoLinesIntersect ==
    ret.op = "compute_vanishing_point"
        => /\ \A us \in {SelectSeq(v_calibrator.lines, IsUsableLine)} :
                (Len(us) = 2 /\ TwoNonParallel(us))
                   => /\ ret.val # None
                      /\ OnLine(us[1], Get(ret.val))
                      /\ OnLine(us[2], Get(ret.val))
           /\ v_calibrator.lines = <<<<0, 0, 10, 10>>, <<0, 10, 10, 0>>>>
                => ret.val = Some(<<R(5), R(5)>>)

\* The point (5, 5) returned for the two diagonals.
C15_Witness ==
    /\ ret.op = "compute_vanishing_point"
    /\ v_calibrator.lines = <<<<0, 0, 10, 10>>, <<0, 10, 10, 0>>>>
    /\ ret.val = Some(<<R(5), R(5)>>)

C17_RemoveLastLine ==
    [][ret'.op = "remove_last_line"
         => IF v_calibrator.lines # <<>>
            THEN /\ ret'.val = TRUE
                 /\ v_calibrator'.lines
                      = [i \in 1..(Len(v_calibrator.lines) - 1) |-> v_calibrator.lines[i]]
            ELSE /\ ret'.val = FALSE
                 /\ v_calibrator'.lines = <<>>]_vars

\* The last of three lines removed, the two left being different lines.
C17_Witness ==
    /\ ret.op = "remove_last_line"
    /\ ret.val = TRUE
    /\ Len(v_calibrator.lines) = 2
    /\ v_calibrator.lines[1] # v_calibrator.lines[2]

\* C18 (as claimed): every optimize_pitch call evaluates exactly 101
\* candidates, each against every correspondence once.
C18_AlwaysAllCandidates ==
    ret.op = "optimize_pitch"
        => /\ ret.work.candidates = 101
           /\ ret.work.calls = 101 * Len(ret.args.pairs)

\* C18 (amended): an optimize_pitch call with a non-empty correspondence list
\* evaluates exactly 101 candidates, each against every correspondence once;
\* with an empty list it evaluates none.
C18_AllCandidatesWhenNonEmpty ==
    ret.op = "optimize_pitch"
        => IF ret.args.pairs # <<>>
           THEN /\ ret.work.candidates = 101
                /\ ret.work.calls = 101 * Len(ret.args.pairs)
           ELSE /\ ret.work.candidates = 0
                /\ ret.work.calls = 0

\* A search over two correspondences of which the first has no projection
\* under some candidates.
C18_Witness ==
    /\ ret.op = "optimize_pitch"
    /\ ret.args.pairs = <<Pair(0, 1, 0, 0), Pair(-200, 0, 0, 0)>>
    /\ ret.work.candidates = 101
    /\ ret.work.calls = 202

\* ---- C19 ----
\* The six transform operations of the engine.
TransformOperations ==
    {"radar_to_bev", "bev_to_radar", "image_to_bev", "bev_to_image",
     "get_radar_bev_homography", "get_camera_bev_homography"}

\* What the operation op answers for the arguments a under the camera
\* parameters cp and the radar parameters rp.
AnswerUnder(op, a, cp, rp) ==
    CASE op = "radar_to_bev" -> radar_to_bev(rp, a[1], a[2])
      [] op = "bev_to_radar" -> bev_to_radar(rp, a[1], a[2])
      [] op = "image_to_bev" -> image_to_bev(cp, a[1], a[2])
      [] op = "bev_to_image" -> bev_to_image(cp, a[1], a[2])
      [] op = "get_radar_bev_homography" -> get_radar_bev_homography(rp)
      [] op = "get_camera_bev_homography" -> get_camera_bev_homography(cp)

\* C19: a call of radar_to_bev, bev_to_radar, image_to_bev, bev_to_image,
\* get_radar_bev_homography or get_camera_bev_homography leaves the camera
\* parameters, the radar parameters and the vanishing-point estimator as they
\* were, and its result is determined by its arguments and the parameters in
\* force: two calls with the same arguments under the same parameters return
\* the same result.
C19_TransformsArePure ==
    [][ret'.op \in TransformOperations =>
          /\ camera' = camera
          /\ radar' = radar
          /\ transformer' = transformer
          /\ v_calibrator' = v_calibrator
          /\ vanishing_lines' = vanishing_lines
          /\ ret'.val = AnswerUnder(ret'.op, ret'.args, camera, radar)
          /\ ret'.val = AnswerUnder(ret'.op, ret'.args, camera', radar')]_vars

\* The camera homography has been asked for and all four sample points
\* projected.
C19_Witness ==
    /\ ret.op = "get_camera_bev_homography"
    /\ ret.val # None

\* ---- C20 ----
\* A positive multiple of ray_veh[2], the component along the vehicle's Up
\* axis of the ray through a pixel of row v: with cos(-p) = cos p = sg/S and
\* sin(-p) = -sin p = -sg*t/S, ray_veh[2] = -ry = -(yc*cos p + zc*sin p),
\* which is -sg*(y_norm + t) divided by S and by the norm of the ray.
RayUpward(cp, v) ==
    LET y_norm == RDiv(RSub(v, cp.cy), cp.fy)
    IN  RNeg(RMul(Sg(cp.pitch), RAdd(y_norm, cp.pitch.tan)))

\* The same positive multiple of 1/t for the intersection parameter
\* t = -cam_z_pos / ray_veh[2] cancels in its sign.
NegativeIntersection(cp, v) == RLt(RDiv(RNeg(cp.height), RayUpward(cp, v)), Zero)

\* z_cam <= 1/10 for the ground point at y_bev:
\* z_cam = cam_z_pos*sin p + (y_bev - 3.5)*cos p = sg*(cam_z_pos*t + y_bev - 7/2)/S,
\* and z_cam <= 1/10 iff z_cam <= 0 or (S*z_cam)^2 <= S^2/100.
DepthAtOrBelowThreshold(cp, y_bev) ==
    LET sz == RMul(Sg(cp.pitch),
                   RAdd(RMul(cp.height, cp.pitch.tan), RSub(y_bev, <<7, 2>>)))
    IN  \/ RLe(sz, Zero)
        \/ RLe(RMul(R(100), RSq(sz)), Sec2(cp.pitch))

IsPairOrAbsent(val) == val = None \/ (Len(val) = 1 /\ Len(val[1]) = 2)

\* C20: with fx, fy > 0, image_to_bev and bev_to_image answer a coordinate
\* pair or the absent result; image_to_bev answers absent exactly when the
\* ray's upward component is >= 0 or the intersection parameter is negative,
\* bev_to_image exactly when the point's depth in the camera frame is <= 0.1.
C20_AbsentExactlyAtCutOffs ==
    (RLt(Zero, camera.fx) /\ RLt(Zero, camera.fy)) =>
        /\ ret.op = "image_to_bev" =>
              /\ IsPairOrAbsent(ret.val)
              /\ ret.val = None <=>
                    \/ RLe(Zero, RayUpward(camera, ret.args[2]))
                    \/ NegativeIntersection(camera, ret.args[2])
        /\ ret.op = "bev_to_image" =>
              /\ IsPairOrAbsent(ret.val)
              /\ ret.val = None <=> DepthAtOrBelowThreshold(camera, ret.args[2])

\* bev_to_image was asked for a point in front of the camera by less than
\* the threshold, and answered absent.
C20_Witness ==
    /\ ret.op = "bev_to_image"
    /\ ret.val = None
    /\ RLt(<<7, 2>>, ret.args[2])
    /\ camera.pitch = [tan |-> Zero, turn |-> 0]

\* ---- C21 ----
\* The number of the fixed sample points with a defined pixel under cp.
SurvivingSamples(cp) ==
    Cardinality({i \in 1..4 : bev_to_image(cp, bev_pts[i][1], bev_pts[i][2]) # None})

\* C21: get_camera_bev_homography returns undefined whenever fewer than 4 of
\* its sample points project to a defined pixel, and a fit is attempted only
\* on at least 4 surviving pairs of a pixel and a ground point.
C21_NoFitBelowFourPoints ==
    ret.op = "get_camera_bev_homography" =>
        /\ SurvivingSamples(camera) < 4 => ret.val = None
        /\ ret.val # None =>
              /\ Len(Get(ret.val).fitted_from) >= 4
              /\ Len(Get(ret.val).fitted_to) = Len(Get(ret.val).fitted_from)
              /\ \A i \in DOMAIN Get(ret.val).fitted_from :
                    Some(Get(ret.val).fitted_from[i]) =
                        bev_to_image(camera, Get(ret.val).fitted_to[i][1],
                                             Get(ret.val).fitted_to[i][2])

\* The homography was asked for while some, but not all, sample points
\* project.
C21_Witness ==
    /\ ret.op = "get_camera_bev_homography"
    /\ ret.val = None
    /\ SurvivingSamples(camera) \in 1..3

\* ---- C22 ----
\* C22: fit_homography returns undefined, never a matrix and never an error,
\* whenever it is given fewer than 4 source points or fewer than 4
\* destination points.
C22_UndefinedBelowFourPoints ==
    (/\ ret.op = "fit_homography"
     /\ (Len(ret.args[1]) < 4 \/ Len(ret.args[2]) < 4)) => ret.val = None

\* fit_homography was given 5 source points and 3 destination points.
C22_Witness ==
    /\ ret.op = "fit_homography"
    /\ Len(ret.args[1]) = 5
    /\ Len(ret.args[2]) = 3
    /\ ret.val = None

\* ---- C23 ----
\* The points of pts lie on one line.
Collinear(pts) ==
    \A i, j, k \in DOMAIN pts :
        RMul(RSub(pts[j][1], pts[i][1]), RSub(pts[k][2], pts[i][2])) =
            RMul(RSub(pts[j][2], pts[i][2]), RSub(pts[k][1], pts[i][1]))

\* C23: fitting a homography on correspondences whose source points or
\* whose destination points are all collinear returns undefined, not a
\* matrix.
C23_CollinearIsUndefined ==
    (/\ ret.op = "fit_homography"
     /\ (Collinear(ret.args[1]) \/ Collinear(ret.args[2]))) => ret.val = None

\* ---- C24 ----
\* An epsilon the cut-off of image_to_bev is tried against.  The upward
\* component of the unit ray is RayUpward divided by S and by the norm of
\* (x_norm, y_norm, 1), both at least 1, so a ray with RayUpward > -epsilon
\* has its upward component within epsilon of the horizon.
EpsilonTried == <<1, 1000>>

\* C24 as stated: both cut-offs are strictly positive: image_to_bev rejects
\* every ray whose upward component is less than a positive epsilon below
\* the horizon, and bev_to_image rejects every point whose depth is within the
\* positive threshold of the camera plane.
C24_BothCutOffsPositive ==
    /\ (/\ ret.op = "image_to_bev"
        /\ RLt(RNeg(EpsilonTried), RayUpward(camera, ret.args[2]))) => ret.val = None
    /\ (/\ ret.op = "bev_to_image"
        /\ DepthAtOrBelowThreshold(camera, ret.args[2])) => ret.val = None

\* C24 as amended: the cut-off of bev_to_image is the positive depth 0.1,
\* that of image_to_bev is zero: a camera at or above the ground gets a
\* ground point for every ray below the horizon, however little below.
C24_OnlyDepthCutOffPositive ==
    /\ (/\ ret.op = "image_to_bev"
        /\ RLe(Zero, camera.height)
        /\ RLt(RayUpward(camera, ret.args[2]), Zero)) => ret.val # None
    /\ (/\ ret.op = "bev_to_image"
        /\ DepthAtOrBelowThreshold(camera, ret.args[2])) => ret.val = None

\* image_to_bev answered a ground point for a ray less than EpsilonTried
\* below the horizon.
C24_Witness ==
    /\ ret.op = "image_to_bev"
    /\ ret.val # None
    /\ RLt(RNeg(EpsilonTried), RayUpward(camera, ret.args[2]))

\* ---- C25 ----
\* A line whose two endpoints coincide.
ZeroLength(l) == l[1] = l[3] /\ l[2] = l[4]

HasLength(l) == ~ZeroLength(l)

\* C25: add_line takes a zero-length line like any other, and
\* compute_vanishing_point leaves such lines out: with fewer than 2 lines of
\* non-zero length it returns undefined, and with exactly 2 of them, and any
\* number of zero-length lines among them, what it returns for the 2 alone.
C25_ZeroLengthLinesExcluded ==
    /\ ret.op = "add_line" =>
          /\ Len(v_calibrator.lines) >= 1
          /\ v_calibrator.lines[Len(v_calibrator.lines)] = ret.args
    /\ ret.op = "compute_vanishing_point" =>
          \A us \in {SelectSeq(v_calibrator.lines, HasLength)} :
              /\ Len(us) < 2 => ret.val = None
              /\ Len(us) = 2 => ret.val = FreshVP(us)

\* A point returned for two crossing lines with a zero-length line between
\* or around them.
C25_Witness ==
    /\ ret.op = "compute_vanishing_point"
    /\ Len(v_calibrator.lines) = 3
    /\ Len(SelectSeq(v_calibrator.lines, HasLength)) = 2
    /\ ret.val # None

\* ---- C26 ----
\* C26: when undo_last_pair (undo_last_lane) returns an item, the item was in
\* the pairs (lanes) list right before the call and the list is one item
\* shorter after it; when it returns None both lists are as they were.
C26_UndoRemovesWhatItReturns ==
    [][/\ ret'.op = "undo_last_pair" =>
             IF ret'.val # None
             THEN /\ In(Get(ret'.val), ops.pairs)
                  /\ Len(ops'.pairs) = Len(ops.pairs) - 1
             ELSE ops'.pairs = ops.pairs /\ ops'.lanes = ops.lanes
        /\ ret'.op = "undo_last_lane" =>
             IF ret'.val # None
             THEN /\ In(Get(ret'.val), ops.lanes)
                  /\ Len(ops'.lanes) = Len(ops.lanes) - 1
             ELSE ops'.pairs = ops.pairs /\ ops'.lanes = ops.lanes]_vars

\* ---- C27 ----
\* C27: the pairs list never holds more than MAX_PAIRS pairs, and once it
\* holds MAX_PAIRS, select_radar_point returns False and leaves the mode and
\* the pending selection as they were.
C27_AtMostMaxPairs ==
    [][/\ Len(ops'.pairs) <= MAX_PAIRS
       /\ (ret'.op = "select_radar_point" /\ Len(ops.pairs) >= MAX_PAIRS) =>
             /\ ret'.val = FALSE
             /\ ops'.mode = ops.mode
             /\ ops'.pending_radar = ops.pending_radar]_vars

\* select_radar_point was refused with the list full.
C27_Witness ==
    /\ ret.op = "select_radar_point"
    /\ ret.val = FALSE
    /\ Len(ops.pairs) = MAX_PAIRS

\* ---- C28 ----
\* C28: pending_radar is set exactly in mode SELECT_IMAGE, pending_lane_start
\* exactly in mode LANE_END, and never both.
C28_PendingMatchesMode ==
    /\ ops.pending_radar # None <=> ops.mode = "SELECT_IMAGE"
    /\ ops.pending_lane_start # None <=> ops.mode = "LANE_END"
    /\ ~(ops.pending_radar # None /\ ops.pending_lane_start # None)

\* ---- C29 ----
\* C29: after any add_vanishing_line, undo_vanishing_line,
\* clear_vanishing_lines and compute_pitch_from_lanes calls, the manager's
\* vanishing_lines list is the line list of its calibrator.
C29_ManagerListIsCalibratorList == vanishing_lines = v_calibrator.lines

\* ---- C30 ----
\* No candidate of the grid gives any correspondence of pairs a pixel.
NothingProjects(cp, rp, pairs, search_range) ==
    \A k \in 0..100 :
        \A c \in {[cp EXCEPT !.pitch =
                      PitchOfVpY(cp, SearchVal(VpYOf(cp), search_range, k))]} :
            \A i \in 1..Len(pairs) : ProjectionOf(c, rp, pairs[i]) = None

\* C30: an optimize_pitch call with a non-empty correspondence list of which
\* no candidate projects any correspondence, started from a pitch strictly
\* between -pi/2 and pi/2, leaves the stored pitch at that pitch and returns
\* it.
C30_NoDefinedCandidateKeepsPitch ==
    [][(/\ ret'.op = "optimize_pitch"
        /\ ret'.args.pairs # <<>>
        /\ camera.pitch.turn = 0
        /\ NothingProjects(camera, radar, ret'.args.pairs, ret'.args.search_range))
         => /\ camera'.pitch = camera.pitch
            /\ ret'.val = camera.pitch]_vars

\* A search over a target far behind the camera, from a pitch other than 0.
C30_Witness ==
    /\ ret.op = "optimize_pitch"
    /\ ret.args.pairs = <<Pair(-200, 0, 0, 0)>>
    /\ ret.work.candidates = 101
    /\ camera.pitch.tan # Zero
    /\ NothingProjects(camera, radar, ret.args.pairs, ret.args.search_range)

====
